---- MODULE Spec2Model ----
(***************************************************************************)
(* Baltic regulation analysis: the fixed-window script                     *)
(* (Task2_version13_VM.py, lines 1-229) and the interactive script         *)
(* (Task2_with variable time_version20_VM.py, lines 231-425).              *)
(*                                                                         *)
(* Time is counted in minutes.  A naive wall-clock value typed by the      *)
(* operator is the number of minutes since 2024-09-23 00:00; an instant is *)
(* the number of minutes since 2024-09-23T00:00Z.  A raw record's 'from'   *)
(* is an ISO string, modelled as its wall-clock minutes and its UTC offset.*)
(***************************************************************************)
EXTENDS Integers, Sequences, FiniteSets, TLC

VARIABLES
    mode,             \* "fixed" or "interactive": which script is running
    pc,               \* position of the script
    runs,             \* number of runs of main() started so far
    start_date_cet,   \* module global start_date_cet ([set, t])
    end_date_cet,     \* end_date_cet ([set, t])
    entered_start,    \* what the operator entered as start in the current run
    imbalance_data,   \* result of fetch_data for imbalance_volumes
    activation_data,  \* result of fetch_data for normal_activations_total
    imbalance_df,     \* normalized imbalance table (sequence of rows)
    activation_df,    \* normalized activation table (sequence of rows)
    analysis_df,      \* table returned by analyze_regulation
    effectiveness,    \* effectiveness percentage computed by analyze_regulation
    fetches,          \* GET requests issued in the current run, per series
    calls,            \* functions main() has called in the current run, in order
    out,              \* messages printed in the current run
    written           \* files written in the current run

vars == <<mode, pc, runs, start_date_cet, end_date_cet, entered_start,
          imbalance_data, activation_data, imbalance_df, activation_df,
          analysis_df, effectiveness, fetches, calls, out, written>>

-----------------------------------------------------------------------------
(* Bounds of the model *)

\* longest timeseries of a payload handed to the data pipeline (SpecData)
MaxLen == 2
\* longest timeseries a fetch returns in the whole-program specification
MaxFetchLen == 1
\* runs of the interactive outer loop
MaxRuns == 2

-----------------------------------------------------------------------------
(* Time *)

MinutesPerDay == 1440
MaxSpanDays == 30
PadMinutes == 180

\* 2024-10-27 03:00 wall clock: the end of summer time in the CET zone
DstEndWall == 49140

\* pytz 'CET': UTC+2 in summer, UTC+1 in winter
CetOffset(naive) == IF naive < DstEndWall THEN 120 ELSE 60

\* cet_tz.localize(naive): the instant of a wall-clock value in the CET zone
Localize(naive) == naive - CetOffset(naive)

\* timedelta.days of a non-negative difference of two instants
TimedeltaDays(delta) == delta \div MinutesPerDay

Unset == [set |-> FALSE, t |-> 0]
At(t) == [set |-> TRUE, t |-> t]

\* the constants of the fixed-window script, as wall-clock minutes
FixedStartWall == 0
FixedEndWall == 8640

-----------------------------------------------------------------------------
(* Raw payloads *)

\* one element of 'timeseries': {from, to, values}; 'to' is never read
Rec(hasFrom, wall, off, values) ==
    [has_from |-> hasFrom, wall |-> wall, off |-> off, values |-> values]

\* imbalance records, in chronological order (the record without 'from' last)
ImbalanceRecords ==
    << Rec(TRUE, -180, 0, <<-50>>),    \* 2024-09-22T21:00Z: in the padding only
       Rec(TRUE, -120, 0, <<150>>),    \* 2024-09-22T22:00Z = 2024-09-23 00:00 CEST
       Rec(TRUE, 0, 0, <<150>>),       \* 2024-09-23T00:00Z
       Rec(TRUE, 0, 0, <<-50>>),
       Rec(TRUE, 0, 0, <<0>>),
       Rec(TRUE, 1320, 0, <<150>>),    \* 2024-09-23T22:00Z = 2024-09-24 00:00 CEST
       Rec(TRUE, 1440, 120, <<-50>>),  \* 2024-09-24T00:00+02:00, the same instant
       Rec(FALSE, 0, 0, <<150>>) >>

\* activation records, in chronological order (the record without 'from' last)
ActivationRecords ==
    << Rec(TRUE, -180, 0, <<80>>),     \* one value only, in the padding only
       Rec(TRUE, -120, 0, <<80, 20>>),
       Rec(TRUE, 0, 0, <<80, 20>>),
       Rec(TRUE, 0, 0, <<80, 0>>),
       Rec(TRUE, 0, 0, <<0, 20>>),
       Rec(TRUE, 0, 0, <<0, 0>>),
       Rec(TRUE, 0, 0, <<80>>),        \* one value only, inside the window
       Rec(TRUE, 1320, 0, <<0, 20>>),
       Rec(TRUE, 1440, 120, <<80, 20>>),
       Rec(FALSE, 0, 0, <<80, 20>>) >>

\* the index sequences of length <= n over 1..r, in non-decreasing order
SortedIndexSeqs(r, n) ==
    { s \in UNION { [1..k -> 1..r] : k \in 0..n } :
        \A i \in 1..(Len(s) - 1) : s[i] <= s[i + 1] }

\* every record that has a 'from' renders it with the same UTC offset
UniformOffset(ts) ==
    \A i, j \in 1..Len(ts) :
        (ts[i].has_from /\ ts[j].has_from) => ts[i].off = ts[j].off

\* the timeseries of length <= n built from a tuple of records
Timeseries(records, n) ==
    { ts \in { [i \in 1..Len(s) |-> records[s[i]]] : s \in SortedIndexSeqs(Len(records), n) } :
        UniformOffset(ts) }

\* values of the 'data' field of a response, and the null result of fetch_data
NoneData == [kind |-> "None", timeseries |-> <<>>]
EmptyDict == [kind |-> "empty_dict", timeseries |-> <<>>]
OtherDict == [kind |-> "no_timeseries", timeseries |-> <<>>]
Payload(ts) == [kind |-> "timeseries", timeseries |-> ts]

Payloads(records, n) == { Payload(ts) : ts \in Timeseries(records, n) }

\* Python truthiness of the value fetch_data returned
Truthy(data) == data.kind \notin {"None", "empty_dict"}

-----------------------------------------------------------------------------
(* process_data *)

\* pd.to_datetime(rec['from']).tz_convert('CET'): the instant the string
\* denotes (NaT for a record without 'from'); the zone changes the rendering
\* of the instant, not the instant
ToDatetime(rec) ==
    IF rec.has_from THEN [nat |-> FALSE, t |-> rec.wall - rec.off]
                    ELSE [nat |-> TRUE, t |-> 0]

\* the filter with the end of the window included
InWindow_ClosedEnd(stamp, s, e) == ~stamp.nat /\ stamp.t >= s /\ stamp.t <= e

\* (df.index >= start_date_cet) & (df.index < end_date_cet); NaT compares false
InWindow(stamp, s, e) == ~stamp.nat /\ stamp.t >= s /\ stamp.t < e

\* data.get('timeseries', [])
GetTimeseries(data) == IF data.kind = "timeseries" THEN data.timeseries ELSE <<>>

\* the 'from' column exists when some record carries the key
HasFromColumn(ts) == \E i \in 1..Len(ts) : ts[i].has_from

\* how many elements of 'values' the lambdas of a data type index
ValuesRead(data_type) == IF data_type = "Imbalance" THEN 1 ELSE 2

\* the row of the normalized table made from one filtered record
Row(rec, data_type) ==
    IF data_type = "Imbalance"
    THEN [timestamp |-> ToDatetime(rec).t, baltic_imbalance |-> rec.values[1]]
    ELSE [timestamp |-> ToDatetime(rec).t,
          up_regulation |-> rec.values[1], down_regulation |-> rec.values[2]]

\* the records left by the window filter
Filtered(ts, s, e) == SelectSeq(ts, LAMBDA rec : InWindow(ToDatetime(rec), s, e))

\* an exception inside the try block of process_data: None has no .get, the
\* frame has no 'from' column, or a filtered record's values is too short
ProcessRaises(data, data_type, s, e) ==
    \/ data.kind = "None"
    \/ ~HasFromColumn(GetTimeseries(data))
    \/ \E i \in 1..Len(Filtered(GetTimeseries(data), s, e)) :
          Len(Filtered(GetTimeseries(data), s, e)[i].values) < ValuesRead(data_type)

\* process_data(data, data_type, start_date_cet, end_date_cet)
process_data(data, data_type, s, e) ==
    IF ProcessRaises(data, data_type, s, e)
    THEN [raised |-> TRUE, df |-> <<>>]
    ELSE [raised |-> FALSE,
          df |-> [i \in 1..Len(Filtered(GetTimeseries(data), s, e)) |->
                    Row(Filtered(GetTimeseries(data), s, e)[i], data_type)]]

\* DataFrame.empty
IsEmpty(df) == Len(df) = 0

-----------------------------------------------------------------------------
(* analyze_regulation *)

Abs(x) == IF x < 0 THEN -x ELSE x

\* the column with a zero imbalance counted as positive
Appropriate_ZeroIsPositive(baltic_imbalance, up_regulation, down_regulation) ==
    \/ (baltic_imbalance >= 0 /\ down_regulation > 0)
    \/ (baltic_imbalance < 0 /\ up_regulation > 0)

\* the appropriate_regulation column
Appropriate(baltic_imbalance, up_regulation, down_regulation) ==
    \/ (baltic_imbalance > 0 /\ down_regulation > 0)
    \/ (baltic_imbalance < 0 /\ up_regulation > 0)

\* a join that pairs every left row with every right row
SameKey_Cross(l, r) == TRUE

\* the join key of pd.merge(left_index=True, right_index=True)
SameKey(l, r) == l.timestamp = r.timestamp

\* the joined row with the net instead of the total regulation
AnalysisRow_NetRegulation(l, r) ==
    [timestamp |-> l.timestamp,
     baltic_imbalance |-> l.baltic_imbalance,
     up_regulation |-> r.up_regulation,
     down_regulation |-> r.down_regulation,
     imbalance_magnitude |-> Abs(l.baltic_imbalance),
     regulation_magnitude |-> r.up_regulation - r.down_regulation,
     appropriate_regulation |->
         (\/ (l.baltic_imbalance > 0 /\ r.down_regulation > 0)
          \/ (l.baltic_imbalance < 0 /\ r.up_regulation > 0))]

\* one row of the joined table with its derived columns
\* (the fixed script adds 'hour' and 'day', read off the timestamp; no count
\* or summary depends on them)
AnalysisRow(l, r) ==
    [timestamp |-> l.timestamp,
     baltic_imbalance |-> l.baltic_imbalance,
     up_regulation |-> r.up_regulation,
     down_regulation |-> r.down_regulation,
     imbalance_magnitude |-> Abs(l.baltic_imbalance),
     regulation_magnitude |-> r.up_regulation + r.down_regulation,
     appropriate_regulation |->
         Appropriate(l.baltic_imbalance, r.up_regulation, r.down_regulation)]

\* the rows a left row joins with: every right row with the same key
Matches(l, right) == SelectSeq(right, LAMBDA r : SameKey(l, r))

RECURSIVE Merge(_, _)
\* pd.merge(..., how='inner') and the derived columns
Merge(left, right) ==
    IF left = <<>> THEN <<>>
    ELSE [i \in 1..Len(Matches(Head(left), right)) |->
             AnalysisRow(Head(left), Matches(Head(left), right)[i])]
         \o Merge(Tail(left), right)

\* analysis_df['appropriate_regulation'].sum()
EffectivePeriods(df) == Cardinality({ i \in 1..Len(df) : df[i].appropriate_regulation })

NoEffectiveness == [computed |-> FALSE, nan |-> FALSE, num |-> 0, den |-> 1]

\* (effective_periods / total_periods) * 100 with a numpy integer numerator:
\* 0 / 0 is nan (a warning, no exception); otherwise the fraction num / den
Effectiveness(effective_periods, total_periods) ==
    IF total_periods = 0
    THEN [computed |-> TRUE, nan |-> TRUE, num |-> 0, den |-> 1]
    ELSE [computed |-> TRUE, nan |-> FALSE,
          num |-> 100 * effective_periods, den |-> total_periods]

-----------------------------------------------------------------------------
(* get_valid_datetime *)

BadInput == [ok |-> FALSE, wall |-> 0]
Typed(wall) == [ok |-> TRUE, wall |-> wall]

\* what the operator types at the start prompt
StartInputs == {BadInput, Typed(0), Typed(MinutesPerDay)}

\* what the operator types at the end prompt
EndInputs ==
    {BadInput, Typed(720), Typed(MinutesPerDay),
     Typed(MaxSpanDays * MinutesPerDay),
     Typed(MaxSpanDays * MinutesPerDay + 1),
     Typed((MaxSpanDays + 1) * MinutesPerDay - 1),
     Typed((MaxSpanDays + 1) * MinutesPerDay)}

\* the first check on an end value: date_obj <= start_date_cet
NotAfterStart(date_obj, start) == date_obj <= start

\* the second check on an end value: (date_obj - start_date_cet).days > 30
ExceedsRange(date_obj, start) == TimedeltaDays(date_obj - start) > MaxSpanDays

\* the assignment without the global declaration: a start that is already
\* in the globals stays there
AssignGlobalStart_KeepOld(old, new) == IF old.set THEN old ELSE new

\* global start_date_cet; start_date_cet = get_valid_datetime(...)
AssignGlobalStart(old, new) == new

\* the lines main() runs before it prompts: nothing of an earlier run is kept
\* but the module global start_date_cet
BeginRun ==
    /\ end_date_cet' = Unset
    /\ entered_start' = Unset
    /\ imbalance_data' = NoneData
    /\ activation_data' = NoneData
    /\ imbalance_df' = <<>>
    /\ activation_df' = <<>>
    /\ analysis_df' = <<>>
    /\ effectiveness' = NoEffectiveness
    /\ fetches' = [imbalance |-> 0, activation |-> 0]
    /\ calls' = <<>>
    /\ out' = {}
    /\ written' = {}

\* one round of get_valid_datetime("Enter start date and time")
GetStart ==
    /\ pc = "start_prompt"
    /\ \E inp \in StartInputs :
          IF ~inp.ok
          THEN /\ out' = out \cup {"Invalid date format"}
               /\ UNCHANGED <<pc, start_date_cet, entered_start>>
          ELSE /\ start_date_cet' = AssignGlobalStart(start_date_cet, At(Localize(inp.wall)))
               /\ entered_start' = At(inp.wall)
               /\ pc' = "end_prompt"
               /\ UNCHANGED out
    /\ UNCHANGED <<mode, runs, end_date_cet, imbalance_data, activation_data,
                   imbalance_df, activation_df, analysis_df, effectiveness,
                   fetches, calls, written>>

\* one round of get_valid_datetime("Enter end date and time", False)
GetEnd ==
    /\ pc = "end_prompt"
    /\ \E inp \in EndInputs :
          IF ~inp.ok
          THEN /\ out' = out \cup {"Invalid date format"}
               /\ UNCHANGED <<pc, end_date_cet>>
          ELSE IF start_date_cet.set /\ NotAfterStart(Localize(inp.wall), start_date_cet.t)
          THEN /\ out' = out \cup {"End date must be after start date"}
               /\ UNCHANGED <<pc, end_date_cet>>
          ELSE IF start_date_cet.set /\ ExceedsRange(Localize(inp.wall), start_date_cet.t)
          THEN /\ out' = out \cup {"Time range cannot exceed 30 days"}
               /\ UNCHANGED <<pc, end_date_cet>>
          ELSE /\ end_date_cet' = At(Localize(inp.wall))
               /\ pc' = "fetch_imbalance"
               /\ UNCHANGED out
    /\ UNCHANGED <<mode, runs, start_date_cet, entered_start, imbalance_data,
                   activation_data, imbalance_df, activation_df, analysis_df,
                   effectiveness, fetches, calls, written>>

-----------------------------------------------------------------------------
(* fetch_data *)

\* what one GET can come to: a transport or JSON exception, a non-success
\* status, a body without a 'data' key, or a body whose 'data' is d
Responses(datas) ==
    { [kind |-> k, data |-> NoneData] : k \in {"exception", "http_error", "no_data_key"} }
    \cup { [kind |-> "ok", data |-> d] : d \in datas }

\* the value fetch_data returns
FetchResult(resp) == IF resp.kind = "ok" THEN resp.data ELSE NoneData

\* the except branch of fetch_data prints
FetchPrints(resp) ==
    IF resp.kind \in {"exception", "http_error"} THEN {"Error fetching data"} ELSE {}

FetchedImbalance == {EmptyDict, OtherDict} \cup Payloads(ImbalanceRecords, MaxFetchLen)
FetchedActivation == {EmptyDict, OtherDict} \cup Payloads(ActivationRecords, MaxFetchLen)

\* imbalance_data = fetch_data(IMBALANCE_URL, imbalance_params)
FetchImbalance ==
    /\ pc = "fetch_imbalance"
    /\ \E resp \in Responses(FetchedImbalance) :
          /\ imbalance_data' = FetchResult(resp)
          /\ out' = out \cup FetchPrints(resp)
    /\ fetches' = [fetches EXCEPT !.imbalance = @ + 1]
    /\ pc' = "fetch_activation"
    /\ UNCHANGED <<mode, runs, start_date_cet, end_date_cet, entered_start,
                   activation_data, imbalance_df, activation_df, analysis_df,
                   effectiveness, calls, written>>

\* activation_data = fetch_data(ACTIVATION_URL, activation_params)
FetchActivation ==
    /\ pc = "fetch_activation"
    /\ \E resp \in Responses(FetchedActivation) :
          /\ activation_data' = FetchResult(resp)
          /\ out' = out \cup FetchPrints(resp)
    /\ fetches' = [fetches EXCEPT !.activation = @ + 1]
    /\ pc' = "fetched"
    /\ UNCHANGED <<mode, runs, start_date_cet, end_date_cet, entered_start,
                   imbalance_data, imbalance_df, activation_df, analysis_df,
                   effectiveness, calls, written>>

-----------------------------------------------------------------------------
(* main *)

\* where main() returns to: the outer loop's prompt, or the end of the script
EndOfRun == IF mode = "interactive" THEN "again_prompt" ELSE "exit"

\* the fetch check with 'or' for 'and'
FetchesOk_Either(d1, d2) == Truthy(d1) \/ Truthy(d2)

\* if imbalance_data and activation_data:
FetchesOk(d1, d2) == Truthy(d1) /\ Truthy(d2)

\* the emptiness check with 'or' for 'and'
BothNonEmpty_Either(df1, df2) == ~IsEmpty(df1) \/ ~IsEmpty(df2)

\* if not imbalance_df.empty and not activation_df.empty:
BothNonEmpty(df1, df2) == ~IsEmpty(df1) /\ ~IsEmpty(df2)

\* create_visualization without its try: the exception leaves main()
AfterVisualization_Uncaught(raised) == IF raised THEN "crashed" ELSE "analyze"

\* where main() goes on after create_visualization, whose whole body is one try
AfterVisualization(raised) == "analyze"

\* where main() goes on after analyze_regulation, whose whole body is one try
AfterAnalysis(raised) == EndOfRun

\* the else branch of the fetch check
FetchFailed ==
    /\ pc = "fetched"
    /\ ~FetchesOk(imbalance_data, activation_data)
    /\ out' = out \cup {"Failed to fetch data from one or both APIs"}
    /\ pc' = EndOfRun
    /\ UNCHANGED <<mode, runs, start_date_cet, end_date_cet, entered_start,
                   imbalance_data, activation_data, imbalance_df, activation_df,
                   analysis_df, effectiveness, fetches, calls, written>>

\* imbalance_df = process_data(imbalance_data, "Imbalance", ...)
ProcessImbalance ==
    /\ pc = "fetched"
    /\ FetchesOk(imbalance_data, activation_data)
    /\ LET res == process_data(imbalance_data, "Imbalance",
                               start_date_cet.t, end_date_cet.t)
       IN  /\ imbalance_df' = res.df
           /\ out' = out \cup (IF res.raised THEN {"Error processing Imbalance data"}
                                             ELSE {"Imbalance DataFrame processed"})
    /\ calls' = Append(calls, "process_data")
    /\ pc' = "process_activation"
    /\ UNCHANGED <<mode, runs, start_date_cet, end_date_cet, entered_start,
                   imbalance_data, activation_data, activation_df, analysis_df,
                   effectiveness, fetches, written>>

\* activation_df = process_data(activation_data, "Activation", ...)
ProcessActivation ==
    /\ pc = "process_activation"
    /\ LET res == process_data(activation_data, "Activation",
                               start_date_cet.t, end_date_cet.t)
       IN  /\ activation_df' = res.df
           /\ out' = out \cup (IF res.raised THEN {"Error processing Activation data"}
                                             ELSE {"Activation DataFrame processed"})
    /\ calls' = Append(calls, "process_data")
    /\ pc' = "processed"
    /\ UNCHANGED <<mode, runs, start_date_cet, end_date_cet, entered_start,
                   imbalance_data, activation_data, imbalance_df, analysis_df,
                   effectiveness, fetches, written>>

\* the else branch of the emptiness check
NoData ==
    /\ pc = "processed"
    /\ ~BothNonEmpty(imbalance_df, activation_df)
    /\ out' = out \cup {"No data available for processing"}
    /\ pc' = EndOfRun
    /\ UNCHANGED <<mode, runs, start_date_cet, end_date_cet, entered_start,
                   imbalance_data, activation_data, imbalance_df, activation_df,
                   analysis_df, effectiveness, fetches, calls, written>>

\* create_visualization(imbalance_df, activation_df, ...): plotting or
\* savefig may raise; the exception is caught inside and printed
CreateVisualization ==
    /\ pc = "processed"
    /\ BothNonEmpty(imbalance_df, activation_df)
    /\ calls' = Append(calls, "create_visualization")
    /\ \E raised \in BOOLEAN :
          /\ written' = IF raised THEN written
                        ELSE written \cup {"baltic_regulation_analysis.png"}
          /\ out' = out \cup (IF raised THEN {"Error creating visualization"}
                                        ELSE {"Visualization saved"})
          /\ pc' = AfterVisualization(raised)
    /\ UNCHANGED <<mode, runs, start_date_cet, end_date_cet, entered_start,
                   imbalance_data, activation_data, imbalance_df, activation_df,
                   analysis_df, effectiveness, fetches>>

\* analyze_regulation(imbalance_df, activation_df): the join, the derived
\* columns, the summary and its prints, then to_csv, which may raise; an
\* exception is caught inside, printed, and an empty table is returned
AnalyzeRegulation ==
    /\ pc = "analyze"
    /\ calls' = Append(calls, "analyze_regulation")
    /\ LET joined == Merge(imbalance_df, activation_df)
       IN  /\ effectiveness' = Effectiveness(EffectivePeriods(joined), Len(joined))
           /\ \E raised \in BOOLEAN :
                 /\ analysis_df' = IF raised THEN <<>> ELSE joined
                 /\ written' = IF raised THEN written
                               ELSE written \cup {"regulation_analysis.csv"}
                 /\ out' = out \cup {"Regulation effectiveness"}
                               \cup (IF raised THEN {"Error in regulation analysis"}
                                               ELSE {"Detailed analysis saved"})
                 /\ pc' = AfterAnalysis(raised)
    /\ UNCHANGED <<mode, runs, start_date_cet, end_date_cet, entered_start,
                   imbalance_data, activation_data, imbalance_df, activation_df,
                   fetches>>

\* input("Would you like to analyze another time period? (y/n): ").lower() != 'y'
AskAgain ==
    /\ pc = "again_prompt"
    /\ \E answer \in {"y", "Y", "n"} :
          IF answer \in {"y", "Y"}
          THEN /\ runs < MaxRuns
               /\ runs' = runs + 1
               /\ pc' = "start_prompt"
               /\ BeginRun
          ELSE /\ pc' = "exit"
               /\ UNCHANGED <<runs, end_date_cet, entered_start, imbalance_data,
                              activation_data, imbalance_df, activation_df,
                              analysis_df, effectiveness, fetches, calls, out,
                              written>>
    /\ UNCHANGED <<mode, start_date_cet>>

-----------------------------------------------------------------------------
(* The two scripts *)

\* the locals of main() before it has run any line
FreshRun ==
    /\ imbalance_data = NoneData
    /\ activation_data = NoneData
    /\ imbalance_df = <<>>
    /\ activation_df = <<>>
    /\ analysis_df = <<>>
    /\ effectiveness = NoEffectiveness
    /\ fetches = [imbalance |-> 0, activation |-> 0]
    /\ calls = <<>>
    /\ out = {}
    /\ written = {}

\* the fixed-window script: the window is set at module level
InitFixed ==
    /\ mode = "fixed"
    /\ pc = "fetch_imbalance"
    /\ start_date_cet = At(Localize(FixedStartWall))
    /\ end_date_cet = At(Localize(FixedEndWall))
    /\ entered_start = Unset

\* the interactive script: nothing is set before main() prompts
InitInteractive ==
    /\ mode = "interactive"
    /\ pc = "start_prompt"
    /\ start_date_cet = Unset
    /\ end_date_cet = Unset
    /\ entered_start = Unset

Init ==
    /\ runs = 1
    /\ FreshRun
    /\ (InitFixed \/ InitInteractive)

Next ==
    \/ GetStart
    \/ GetEnd
    \/ FetchImbalance
    \/ FetchActivation
    \/ FetchFailed
    \/ ProcessImbalance
    \/ ProcessActivation
    \/ NoData
    \/ CreateVisualization
    \/ AnalyzeRegulation
    \/ AskAgain

Spec == Init /\ [][Next]_vars

\* main() runs its statements to the end: once both tables are there, the
\* rendering and the analysis are not left pending
FairSpec ==
    Spec /\ WF_vars(CreateVisualization) /\ WF_vars(AnalyzeRegulation)

-----------------------------------------------------------------------------
(* The data pipeline on its own: main() from the point where both fetches   *)
(* have returned a payload, over a wider range of payloads                  *)

\* the windows the pipeline is run on: the fixed script's, and the
\* interactive window 2024-09-23 00:00 to 2024-09-24 00:00
InitDataWindow ==
    \/ /\ mode = "fixed"
       /\ start_date_cet = At(Localize(FixedStartWall))
       /\ end_date_cet = At(Localize(FixedEndWall))
       /\ entered_start = Unset
    \/ /\ mode = "interactive"
       /\ start_date_cet = At(Localize(0))
       /\ end_date_cet = At(Localize(MinutesPerDay))
       /\ entered_start = At(0)

InitData ==
    /\ runs = 1
    /\ pc = "fetched"
    /\ InitDataWindow
    /\ imbalance_data \in {OtherDict} \cup Payloads(ImbalanceRecords, MaxLen)
    /\ activation_data \in {OtherDict} \cup Payloads(ActivationRecords, MaxLen)
    /\ imbalance_df = <<>>
    /\ activation_df = <<>>
    /\ analysis_df = <<>>
    /\ effectiveness = NoEffectiveness
    /\ fetches = [imbalance |-> 1, activation |-> 1]
    /\ calls = <<>>
    /\ out = {}
    /\ written = {}

NextData ==
    \/ ProcessImbalance
    \/ ProcessActivation
    \/ NoData
    \/ CreateVisualization
    \/ AnalyzeRegulation

SpecData == InitData /\ [][NextData]_vars

-----------------------------------------------------------------------------
(* Properties *)

\* the run is past both calls of process_data
Processed == pc \in {"processed", "analyze", "again_prompt", "exit"} /\ Len(calls) >= 2

\* main() has returned from the current run
RunOver == pc \in {"again_prompt", "exit"}

\* the instant of a record that has a 'from'
Instant(rec) == rec.wall - rec.off

\* the timestamps of a table
Stamps(df) == { df[i].timestamp : i \in 1..Len(df) }

\* C1: every row of either normalized table has a timestamp t with
\* start <= t < end; when normalization did not fail, a record whose 'from'
\* is the start is a row of the table, and a record whose 'from' is the end
\* or lies outside the window (the padding of the fetch window) is not.
C1_RowsInWindow ==
    /\ \A t \in Stamps(imbalance_df) \cup Stamps(activation_df) :
          start_date_cet.t <= t /\ t < end_date_cet.t
    /\ (Processed /\ "Imbalance DataFrame processed" \in out) =>
          \A i \in 1..Len(imbalance_data.timeseries) :
             LET rec == imbalance_data.timeseries[i]
             IN  rec.has_from =>
                   /\ (Instant(rec) = start_date_cet.t => Instant(rec) \in Stamps(imbalance_df))
                   /\ (Instant(rec) = end_date_cet.t => Instant(rec) \notin Stamps(imbalance_df))
                   /\ (Instant(rec) < start_date_cet.t => Instant(rec) \notin Stamps(imbalance_df))
    /\ (Processed /\ "Activation DataFrame processed" \in out) =>
          \A i \in 1..Len(activation_data.timeseries) :
             LET rec == activation_data.timeseries[i]
             IN  rec.has_from =>
                   /\ (Instant(rec) = start_date_cet.t => Instant(rec) \in Stamps(activation_df))
                   /\ (Instant(rec) = end_date_cet.t => Instant(rec) \notin Stamps(activation_df))
                   /\ (Instant(rec) < start_date_cet.t => Instant(rec) \notin Stamps(activation_df))

\* an imbalance payload with a record at the start and one at the end has
\* been normalized to the single row at the start, and an activation payload
\* with a record in the padding and one inside to the single row inside
C1_Witness ==
    /\ Processed
    /\ mode = "interactive"
    /\ \E i, j \in 1..Len(imbalance_data.timeseries) :
          /\ imbalance_data.timeseries[i].has_from
          /\ imbalance_data.timeseries[j].has_from
          /\ Instant(imbalance_data.timeseries[i]) = start_date_cet.t
          /\ Instant(imbalance_data.timeseries[j]) = end_date_cet.t
    /\ Stamps(imbalance_df) = {start_date_cet.t}
    /\ \E i \in 1..Len(activation_data.timeseries) :
          /\ activation_data.timeseries[i].has_from
          /\ Instant(activation_data.timeseries[i]) < start_date_cet.t
          /\ Instant(activation_data.timeseries[i]) >= start_date_cet.t - PadMinutes
    /\ Cardinality(Stamps(activation_df)) = 1

\* C2: in every row of the joined table appropriate_regulation is true
\* exactly when (baltic_imbalance > 0 and down_regulation > 0) or
\* (baltic_imbalance < 0 and up_regulation > 0); a row with
\* baltic_imbalance = 0 is never marked.
C2_AppropriateIff ==
    \A i \in 1..Len(analysis_df) :
       /\ analysis_df[i].appropriate_regulation <=>
             \/ (analysis_df[i].baltic_imbalance > 0 /\ analysis_df[i].down_regulation > 0)
             \/ (analysis_df[i].baltic_imbalance < 0 /\ analysis_df[i].up_regulation > 0)
       /\ analysis_df[i].baltic_imbalance = 0 => ~analysis_df[i].appropriate_regulation

\* the joined table has a zero-imbalance row with both regulations active,
\* a marked row and an unmarked row with non-zero imbalance
C2_Witness ==
    /\ \E i \in 1..Len(analysis_df) :
          /\ analysis_df[i].baltic_imbalance = 0
          /\ analysis_df[i].up_regulation > 0
          /\ analysis_df[i].down_regulation > 0
          /\ ~analysis_df[i].appropriate_regulation
    /\ \E i \in 1..Len(analysis_df) :
          /\ analysis_df[i].baltic_imbalance < 0
          /\ analysis_df[i].appropriate_regulation

\* the payloads of the scenario: one imbalance record [150] and one
\* activation record [80, 20] at 2024-09-23T00:00Z
ScenarioRun ==
    /\ imbalance_data = Payload(<<Rec(TRUE, 0, 0, <<150>>)>>)
    /\ activation_data = Payload(<<Rec(TRUE, 0, 0, <<80, 20>>)>>)
    /\ "Detailed analysis saved" \in out

ScenarioRow(appropriate) ==
    [timestamp |-> 0, baltic_imbalance |-> 150, up_regulation |-> 80,
     down_regulation |-> 20, imbalance_magnitude |-> 150,
     regulation_magnitude |-> 100, appropriate_regulation |-> appropriate]

\* C3 as stated: the single joined row of the scenario has
\* baltic_imbalance = 150, up_regulation = 80, down_regulation = 20,
\* imbalance_magnitude = 150, regulation_magnitude = 100 and
\* appropriate_regulation = false.
C3_ScenarioRowOriginal == ScenarioRun => analysis_df = <<ScenarioRow(FALSE)>>

\* C3 amended: the single joined row of the scenario has the same five
\* numbers and appropriate_regulation = true (the imbalance is positive and
\* down_regulation = 20 > 0).
C3_ScenarioRow == ScenarioRun => analysis_df = <<ScenarioRow(TRUE)>>

\* the scenario has been analysed
C3_Witness == ScenarioRun /\ Len(analysis_df) = 1

Min(a, b) == IF a <= b THEN a ELSE b

\* no timestamp occurs twice in the table
DistinctStamps(df) == Cardinality(Stamps(df)) = Len(df)

\* C4 as stated: the joined table has at most as many rows as the smaller
\* of the two normalized tables, whatever the payloads.
C4_JoinAtMostMinOriginal ==
    "Detailed analysis saved" \in out =>
       Len(analysis_df) <= Min(Len(imbalance_df), Len(activation_df))

\* C4 amended: the joined table has at most as many rows as the smaller of
\* the two normalized tables when no timestamp is repeated within either of
\* them; in general it has one row per pair of rows with equal timestamps,
\* hence at most the product of the two row counts.
C4_JoinAtMostMin ==
    "Detailed analysis saved" \in out =>
       /\ (DistinctStamps(imbalance_df) /\ DistinctStamps(activation_df)) =>
             Len(analysis_df) <= Min(Len(imbalance_df), Len(activation_df))
       /\ Len(analysis_df) =
             Cardinality({ p \in (1..Len(imbalance_df)) \X (1..Len(activation_df)) :
                             imbalance_df[p[1]].timestamp = activation_df[p[2]].timestamp })
       /\ Len(analysis_df) <= Len(imbalance_df) * Len(activation_df)

\* two tables of two rows each without repeated timestamps, sharing one
\* timestamp, have been joined
C4_Witness ==
    /\ "Detailed analysis saved" \in out
    /\ Len(imbalance_df) = 2 /\ DistinctStamps(imbalance_df)
    /\ Len(activation_df) = 2 /\ DistinctStamps(activation_df)
    /\ Len(analysis_df) = 1

\* C5 as stated: every window get_valid_datetime returns in interactive mode
\* spans at most 30 days: an end more than 30 days after the start is
\* rejected, by however little it exceeds them.
C5_SpanAtMost30Days ==
    (mode = "interactive" /\ end_date_cet.set) =>
       end_date_cet.t - start_date_cet.t <= MaxSpanDays * MinutesPerDay

\* C6: in every run of the interactive loop the end is validated against
\* the start entered in that run: once the end is accepted, the window's
\* start is the start entered in this run and lies before the end.
C6_EndAfterOwnStart ==
    (mode = "interactive" /\ end_date_cet.set) =>
       /\ entered_start.set
       /\ start_date_cet = At(Localize(entered_start.t))
       /\ start_date_cet.t < end_date_cet.t

\* a repeated run has rejected an end that is not after its own start and
\* then accepted an end
C6_Witness ==
    /\ mode = "interactive"
    /\ runs = 2
    /\ end_date_cet.set
    /\ entered_start = At(MinutesPerDay)
    /\ "End date must be after start date" \in out

\* C7: when fetch_data returned null for either series, main() calls none of
\* process_data, create_visualization and analyze_regulation, writes no
\* file, prints the fetch-failure message and returns; each of the two
\* fetches was issued exactly once.
C7_NullFetchAborts ==
    (pc \in {"fetched", "process_activation", "processed", "analyze", "again_prompt", "exit"}
       /\ (imbalance_data = NoneData \/ activation_data = NoneData)) =>
       /\ calls = <<>>
       /\ written = {}
       /\ fetches = [imbalance |-> 1, activation |-> 1]
       /\ pc \in {"fetched", "again_prompt", "exit"}
       /\ RunOver => "Failed to fetch data from one or both APIs" \in out

\* a run whose imbalance fetch failed and whose activation fetch returned a
\* timeseries is over
C7_Witness ==
    /\ RunOver
    /\ imbalance_data = NoneData
    /\ "Error fetching data" \in out
    /\ activation_data.kind = "timeseries"
    /\ Len(activation_data.timeseries) > 0
    /\ "Failed to fetch data from one or both APIs" \in out

\* the pairs of rows of the two normalized tables with equal timestamps
JoinedPairs ==
    { p \in (1..Len(imbalance_df)) \X (1..Len(activation_df)) :
        imbalance_df[p[1]].timestamp = activation_df[p[2]].timestamp }

\* the pairs whose joined row is appropriately regulated
AppropriatePairs ==
    { p \in JoinedPairs :
        \/ (imbalance_df[p[1]].baltic_imbalance > 0 /\ activation_df[p[2]].down_regulation > 0)
        \/ (imbalance_df[p[1]].baltic_imbalance < 0 /\ activation_df[p[2]].up_regulation > 0) }

\* C8 as stated: the effectiveness is 100 * count / total_rows when
\* total_rows > 0; when the join is empty the division by zero is an
\* analysis failure that is logged, and no percentage is reported.
C8_EmptyJoinGuarded ==
    "analyze_regulation" \in { calls[i] : i \in 1..Len(calls) } =>
       /\ Cardinality(JoinedPairs) > 0 =>
             /\ ~effectiveness.nan
             /\ effectiveness.num * Cardinality(JoinedPairs)
                  = 100 * Cardinality(AppropriatePairs) * effectiveness.den
       /\ Cardinality(JoinedPairs) = 0 =>
             /\ "Error in regulation analysis" \in out
             /\ "Regulation effectiveness" \notin out
             /\ "regulation_analysis.csv" \notin written

\* the payload has a shape the claim calls a structural failure
Structural(data, data_type) ==
    \/ data.kind # "timeseries"
    \/ data.timeseries = <<>>
    \/ \E i \in 1..Len(data.timeseries) : ~data.timeseries[i].has_from
    \/ /\ data_type = "Activation"
       /\ \E i \in 1..Len(data.timeseries) : Len(data.timeseries[i].values) < 2

\* every record of the payload that has a 'from' is outside the window
AllOutside(data) ==
    \A i \in 1..Len(data.timeseries) :
       data.timeseries[i].has_from =>
          \/ Instant(data.timeseries[i]) < start_date_cet.t
          \/ Instant(data.timeseries[i]) >= end_date_cet.t

\* main() skipped rendering and analysis and printed the no-data message
Skipped ==
    /\ calls = <<"process_data", "process_data">>
    /\ "No data available for processing" \in out
    /\ written = {}

\* C9 as stated: a payload with a missing or empty timeseries, a record
\* without 'from' or an activation record with fewer than 2 values gives an
\* empty table, and main() then skips rendering and analysis and prints the
\* no-data message; so does a payload whose records all fall outside the
\* window.
C9_StructuralFailureSkipsOriginal ==
    (Processed /\ pc # "processed") =>
       /\ Structural(imbalance_data, "Imbalance") => (imbalance_df = <<>> /\ Skipped)
       /\ Structural(activation_data, "Activation") => (activation_df = <<>> /\ Skipped)
       /\ (AllOutside(imbalance_data) \/ AllOutside(activation_data)) => Skipped

\* process_data raises inside its try block on this payload: the timeseries
\* is missing or empty, no record has a 'from', or a record inside the
\* window has fewer values than the data type reads
RaisesInside(data, needed) ==
    \/ data.kind # "timeseries"
    \/ data.timeseries = <<>>
    \/ \A i \in 1..Len(data.timeseries) : ~data.timeseries[i].has_from
    \/ \E i \in 1..Len(data.timeseries) :
          /\ data.timeseries[i].has_from
          /\ Instant(data.timeseries[i]) >= start_date_cet.t
          /\ Instant(data.timeseries[i]) < end_date_cet.t
          /\ Len(data.timeseries[i].values) < needed

\* C9 amended: when process_data raises inside its try block (timeseries
\* missing or empty, no record with a 'from', or a record inside the window
\* with fewer values than are read, 2 for activation), it prints the error
\* and returns an empty table, and main() then skips rendering and analysis
\* and prints the no-data message; so does a payload whose records all fall
\* outside the window.  A record without 'from' beside records that have one
\* and a short record outside the window are dropped by the window filter
\* and are no failure.
C9_StructuralFailureSkips ==
    (Processed /\ pc # "processed") =>
       /\ RaisesInside(imbalance_data, 1) <=> "Error processing Imbalance data" \in out
       /\ RaisesInside(activation_data, 2) <=> "Error processing Activation data" \in out
       /\ RaisesInside(imbalance_data, 1) => (imbalance_df = <<>> /\ Skipped)
       /\ RaisesInside(activation_data, 2) => (activation_df = <<>> /\ Skipped)
       /\ (AllOutside(imbalance_data) \/ AllOutside(activation_data)) => Skipped
       /\ (~RaisesInside(imbalance_data, 1) /\ ~AllOutside(imbalance_data)
             /\ ~RaisesInside(activation_data, 2) /\ ~AllOutside(activation_data))
          => ~Skipped

\* a run is over in which the activation payload had a short record inside
\* the window beside a complete one, the imbalance table was not empty, and
\* rendering and analysis were skipped
C9_Witness ==
    /\ RunOver
    /\ imbalance_df # <<>>
    /\ Len(activation_data.timeseries) = 2
    /\ "Error processing Activation data" \in out
    /\ activation_df = <<>>
    /\ Skipped

\* C10: with both tables non-empty, rendering is attempted first and
\* analysis second; a rendering failure is caught and printed and the
\* analysis still runs and writes the CSV; an analysis failure is caught and
\* printed and leaves the image in place; the run then reaches the end of
\* main(), in interactive mode the prompt for another period.
C10_RenderThenAnalyze ==
    /\ [][(pc = "processed" /\ imbalance_df # <<>> /\ activation_df # <<>>) =>
            (pc' = "analyze" /\ calls' = Append(calls, "create_visualization"))]_vars
    /\ [][pc = "analyze" =>
            /\ calls' = Append(calls, "analyze_regulation")
            /\ written \subseteq written'
            /\ pc' = (IF mode = "interactive" THEN "again_prompt" ELSE "exit")
            /\ ("Error in regulation analysis" \notin out')
                  => "regulation_analysis.csv" \in written']_vars
    /\ [](RunOver /\ Len(calls) > 2 =>
            calls = <<"process_data", "process_data",
                      "create_visualization", "analyze_regulation">>)
    /\ ((pc = "processed" /\ imbalance_df # <<>> /\ activation_df # <<>>)
          ~> (RunOver /\ Len(calls) = 4))
    /\ ((mode = "interactive" /\ pc = "analyze") ~> (pc = "again_prompt"))

\* an interactive run is over whose rendering failed and whose analysis
\* wrote the CSV
C10_Witness ==
    /\ mode = "interactive"
    /\ pc = "again_prompt"
    /\ "Error creating visualization" \in out
    /\ "baltic_regulation_analysis.png" \notin written
    /\ "regulation_analysis.csv" \in written
    /\ "Detailed analysis saved" \in out

====
